---- MODULE Spec2Model ----
(***************************************************************************)
(* Model of azure_ocr_lib.AzureOCR: the result store (result,              *)
(* max_page_count), its loaders (analyze_document, load_azure_ocr_json),   *)
(* its writer (save_azure_ocr_json) and the accessors over the held        *)
(* result.  A JSON object is a function from its keys to its values, so    *)
(* `key in obj` is `key \in DOMAIN obj`; a Python exception is an outcome  *)
(* record carrying the exception's class.  Confidences are integer levels  *)
(* (Confs): only their order matters to the code.                          *)
(***************************************************************************)
EXTENDS Integers, Sequences, FiniteSets, TLC

VARIABLES result, max_page_count, fs, last

vars == <<result, max_page_count, fs, last>>

----------------------------------------------------------------------------
(* Bounds of the model *)

MaxPages == 2       \* pages per document, and the largest `page` number
MaxWords == 2       \* words per document
MaxPairs == 2       \* key-value pairs per document
MaxTables == 2      \* tables per document
MaxCells == 2       \* cells per table

----------------------------------------------------------------------------
(* Python values *)

None == [type |-> "NoneType"]
PyDict(d) == [type |-> "dict", data |-> d]
SdkResult(d) == [type |-> "AnalyzeResult", data |-> d]

NoObj == [isNone |-> TRUE]
Obj(v) == [isNone |-> FALSE, obj |-> v]

Ok(v) == [status |-> "ok", value |-> v]
Raise(cls, msg) == [status |-> cls, value |-> msg]

SeqsUpTo(S, n) == UNION {[1..k -> S] : k \in 0..n}

Max(S) == CHOOSE m \in S : \A n \in S : n <= m

RECURSIVE Flatten(_)
Flatten(ss) == IF ss = <<>> THEN <<>> ELSE Head(ss) \o Flatten(Tail(ss))

RECURSIVE Sum(_)
Sum(ns) == IF ns = <<>> THEN 0 ELSE Head(ns) + Sum(Tail(ns))

----------------------------------------------------------------------------
(* Documents the store can be given *)

ModelIds == {"prebuilt-document", "prebuilt-layout", "prebuilt-read"}
WordTexts == <<"This", "is", "a", "test", "document", "for", "Azure", "OCR.">>
KeyTexts == {"Name", "Date"}
ValueTexts == <<"Ann", "Bob", "Cid", "Dee">>
CellTexts == <<"c1", "c2", "c3", "c4">>
NestedText == "This is a test document for Azure OCR."
TopText == "top-level text"

\* confidence levels (low, high) and the page numbers of bounding regions
Confs == {0, 1}
High == CHOOSE c \in Confs : \A x \in Confs : x <= c
PageNos == 1..MaxPages
RegionPages == {1, 2}

\* a page outline: the page's number and the confidence of each of its words
Outline == [page : PageNos, confs : SeqsUpTo(Confs, MaxWords)]

WordsBefore(outlines, i) == Sum([j \in 1..(i - 1) |-> Len(outlines[j].confs)])

\* The pages of an outline.  The k-th word of the document carries the k-th
\* text; every word has a line of its own and a selection mark of its
\* confidence, selected on odd positions.
Pages(outlines) ==
    [i \in 1..Len(outlines) |->
        LET n == Len(outlines[i].confs)
            at(j) == WordsBefore(outlines, i) + j
        IN [page |-> outlines[i].page,
            words |-> [j \in 1..n |-> [content |-> WordTexts[at(j)],
                                        confidence |-> outlines[i].confs[j]]],
            lines |-> [j \in 1..n |-> [content |-> WordTexts[at(j)]]],
            selectionMarks |->
                [j \in 1..n |->
                    [state |-> IF at(j) % 2 = 1 THEN "selected" ELSE "unselected",
                     confidence |-> outlines[i].confs[j]]]]]

\* pages numbered in any way with one word each, and pages numbered 1..n
\* with any words
PageSeqs ==
    LET anyNumber == SeqsUpTo([page : PageNos, confs : {<<High>>}], MaxPages)
        anyWords == {[i \in 1..Len(cs) |-> [page |-> i, confs |-> cs[i]]] :
                        cs \in SeqsUpTo(SeqsUpTo(Confs, MaxWords), MaxPages)}
    IN {Pages(o) : o \in anyNumber \cup {os \in anyWords :
                                            WordsBefore(os, Len(os) + 1) <= MaxWords}}

\* The i-th pair of a document carries the i-th value text; pairs whose page
\* varies, and pairs whose confidence varies.
PairSeqs ==
    LET Shape == [key : KeyTexts, confidence : Confs, pageNumber : RegionPages]
    IN {[i \in 1..Len(s) |->
            [key |-> [content |-> s[i].key],
             value |-> [content |-> ValueTexts[i], confidence |-> s[i].confidence],
             boundingRegions |-> << [pageNumber |-> s[i].pageNumber] >>]] :
          s \in SeqsUpTo({sh \in Shape : sh.confidence = High}, MaxPairs)
                   \cup SeqsUpTo({sh \in Shape : sh.pageNumber = 1}, MaxPairs)}

\* the i-th cell of a table is the cell of column i-1 of row 0
CellSeqs ==
    LET Shape == [header : BOOLEAN, pageNumber : RegionPages]
        Fields(i, sh) == [rowIndex |-> 0, columnIndex |-> i - 1, content |-> CellTexts[i],
                          boundingRegions |-> << [pageNumber |-> sh.pageNumber] >>]
        KindOf(c) == [k \in DOMAIN c \cup {"kind"} |->
                         IF k = "kind" THEN "columnHeader" ELSE c[k]]
    IN {[i \in 1..Len(s) |->
            IF s[i].header THEN KindOf(Fields(i, s[i])) ELSE Fields(i, s[i])] :
          s \in SeqsUpTo(Shape, MaxCells)}

Table == [rowCount : {1}, columnCount : {MaxCells}, cells : CellSeqs,
          boundingRegions : [1..1 -> [pageNumber : RegionPages]]]

\* one table with any cells, and tables of one plain cell each
TableSeqs ==
    SeqsUpTo(Table, 1)
      \cup SeqsUpTo({t \in Table : Len(t.cells) = 1 /\ "kind" \notin DOMAIN t.cells[1]},
                    MaxTables)

SamplePages == Pages(<< [page |-> 1, confs |-> <<High>>],
                        [page |-> 2, confs |-> <<0>>] >>)

SamplePairs == CHOOSE s \in PairSeqs :
                  /\ Len(s) = 1
                  /\ s[1].key.content = "Name"
                  /\ s[1].value.confidence = High
                  /\ s[1].boundingRegions[1].pageNumber = 1

SampleTables == CHOOSE s \in TableSeqs :
                   /\ Len(s) = 1
                   /\ Len(s[1].cells) = 1
                   /\ "kind" \in DOMAIN s[1].cells[1]
                   /\ s[1].cells[1].boundingRegions[1].pageNumber = 1
                   /\ s[1].boundingRegions[1].pageNumber = 1

PayloadKeys == {"content", "pages", "tables", "keyValuePairs", "pageCount"}

\* the payload object holding the keys `keys`
Payload(keys, pages, tables, pairs) ==
    [k \in keys |->
        CASE k = "content" -> NestedText
          [] k = "pages" -> pages
          [] k = "tables" -> tables
          [] k = "keyValuePairs" -> pairs
          [] k = "pageCount" -> Len(pages)]

\* shape (b): the payload's keys at the top level, next to modelId
Flattened(m, payload) ==
    [k \in DOMAIN payload \cup {"modelId"} |->
        IF k = "modelId" THEN m ELSE payload[k]]

\* shape (a): the payload under analyzeResult; top holds the top-level keys
Wrapped(top, payload) ==
    [k \in DOMAIN top \cup {"analyzeResult"} |->
        IF k = "analyzeResult" THEN payload ELSE top[k]]

TopObjs == {[k \in {} |-> ""]}
             \cup {[k \in {"content"} |-> TopText]}
             \cup {[k \in {"modelId"} |-> m] : m \in ModelIds}
             \cup {[k \in {"modelId", "content"} |-> IF k = "modelId" THEN m ELSE TopText] :
                      m \in ModelIds}

\* both shapes, every top level, and payloads lacking no key, one key or all
ShapeDocs ==
    LET pls == {Payload(keys, SamplePages, SampleTables, SamplePairs) :
                   keys \in {PayloadKeys, {}} \cup {PayloadKeys \ {k} : k \in PayloadKeys}}
    IN {Flattened(m, pl) : m \in ModelIds, pl \in pls}
         \cup pls
         \cup {Wrapped(top, pl) : top \in TopObjs, pl \in pls}

\* a well-formed payload in each of the two shapes
Shapes(pl) ==
    {Flattened("prebuilt-layout", pl), Wrapped([modelId |-> "prebuilt-document"], pl)}

PageDocs ==
    UNION {Shapes(Payload({"content", "pages"}, pages, <<>>, <<>>)) : pages \in PageSeqs}

PairDocs ==
    {Flattened("prebuilt-layout",
               Payload({"content", "pages", "keyValuePairs"}, SamplePages, <<>>, pairs)) :
        pairs \in PairSeqs}

TableDocs ==
    {Flattened("prebuilt-layout",
               Payload({"content", "pages", "tables"}, SamplePages, tables, <<>>)) :
        tables \in TableSeqs}

----------------------------------------------------------------------------
(* The file system and the analysis service *)

NoFile == [kind |-> "absent"]
EmptyFile == [kind |-> "empty"]             \* opened for writing, nothing dumped
JsonFile(d) == [kind |-> "json", data |-> d]
PdfFile(payload) == [kind |-> "pdf", analysis |-> payload]

JsonPaths == {"doc.json", "missing.json", "out.json"}
PdfPaths == {"scan.pdf", "missing.pdf"}
SavePaths == {"out.json"}
Paths == JsonPaths \cup PdfPaths

\* what the service extracts from the scanned file
ServicePayloads ==
    {Payload({"content", "pages", "tables", "keyValuePairs"}, pages, SampleTables, SamplePairs) :
        pages \in {SamplePages, <<>>}}
      \cup {Payload({"content"}, <<>>, <<>>, <<>>)}

\* the documents kept next to a scanned file
ScanDocs ==
    {Wrapped([modelId |-> "prebuilt-document"],
             Payload(keys, SubSeq(SamplePages, 1, 1), SampleTables, SamplePairs)) :
        keys \in {{"content", "pages"}, {"content", "pages", "pageCount"}}}

Disk(doc, scan) ==
    [path \in Paths |->
        CASE path = "doc.json" -> JsonFile(doc)
          [] path = "scan.pdf" -> scan
          [] OTHER -> NoFile]

\* a scanned file next to its document, and a lone document of each family
ScanDisks == {Disk(doc, PdfFile(pl)) : doc \in ScanDocs, pl \in ServicePayloads}
ShapeDisks == {Disk(doc, NoFile) : doc \in ShapeDocs}
PageDisks == {Disk(doc, NoFile) : doc \in PageDocs}
PairDisks == {Disk(doc, NoFile) : doc \in PairDocs}
TableDisks == {Disk(doc, NoFile) : doc \in TableDocs}

exists(path) == fs[path].kind # "absent"

----------------------------------------------------------------------------
(* Helper functions *)

require_azure_ocr_result(self_result, call) ==
    IF self_result = None
    THEN Raise("ValueError", "No Azure OCR result found.")
    ELSE call

get_nested_obj_for_key(d, key) ==
    IF "analyzeResult" \in DOMAIN d
    THEN IF key \in DOMAIN d.analyzeResult THEN Obj(d.analyzeResult[key]) ELSE NoObj
    ELSE IF key \in DOMAIN d THEN Obj(d[key]) ELSE NoObj

\* the value __update_max_page_count assigns to max_page_count
update_max_page_count(d) ==
    LET pages == get_nested_obj_for_key(d, "pages")
    IN IF ~pages.isNone /\ pages.obj # <<>>
       THEN Max({pages.obj[i].page : i \in 1..Len(pages.obj)})
       ELSE 1

Contents(items) == [i \in 1..Len(items) |-> items[i].content]

----------------------------------------------------------------------------
(* Page functions *)

\* a reader that takes the content from wherever the lookup finds it
get_raw_text_by_lookup(d) ==
    LET content == get_nested_obj_for_key(d, "content")
    IN IF content.isNone THEN Raise("KeyError", "content") ELSE Ok(content.obj)

get_raw_text(d) ==
    IF "modelId" \notin DOMAIN d THEN Raise("KeyError", "modelId")
    ELSE IF d.modelId = "prebuilt-document"
    THEN IF "analyzeResult" \notin DOMAIN d THEN Raise("KeyError", "analyzeResult")
         ELSE IF "content" \notin DOMAIN d.analyzeResult THEN Raise("KeyError", "content")
         ELSE Ok(d.analyzeResult.content)
    ELSE IF d.modelId = "prebuilt-layout"
    THEN IF "content" \notin DOMAIN d THEN Raise("KeyError", "content")
         ELSE Ok(d.content)
    ELSE Raise("ValueError", "Non Implemented model_id found in Azure OCR result.")

\* the page-number check of get_words_from_page: TRUE when it raises
invalid_page_number(page_number, mpc) ==
    page_number # -1 /\ (page_number = 0 \/ page_number < -1 \/ page_number > mpc)

\* the loop of get_words_from_page over pages[i..]
RECURSIVE words_loop(_, _, _, _, _)
words_loop(pages, i, page_number, minimal_confidence, words) ==
    IF i > Len(pages) THEN words
    ELSE words_loop(pages, i + 1, page_number, minimal_confidence,
            IF page_number = -1 \/ pages[i].page = page_number
            THEN words \o Contents(SelectSeq(pages[i].words,
                                     LAMBDA word : word.confidence >= minimal_confidence))
            ELSE words)

get_words_from_page(d, mpc, page_number, minimal_confidence) ==
    IF invalid_page_number(page_number, mpc)
    THEN \* the message of the error reads result['analyzeResult']['pageCount']
         IF "analyzeResult" \notin DOMAIN d THEN Raise("KeyError", "analyzeResult")
         ELSE IF "pageCount" \notin DOMAIN d.analyzeResult THEN Raise("KeyError", "pageCount")
         ELSE Raise("ValueError", "Invalid page number.")
    ELSE IF "analyzeResult" \notin DOMAIN d THEN Raise("KeyError", "analyzeResult")
    ELSE IF "pages" \notin DOMAIN d.analyzeResult THEN Raise("KeyError", "pages")
    ELSE Ok(words_loop(d.analyzeResult.pages, 1, page_number, minimal_confidence, <<>>))

RECURSIVE marks_loop(_, _, _, _, _)
marks_loop(pages, i, page_number, minimal_confidence, selection_marks) ==
    IF i > Len(pages) THEN selection_marks
    ELSE marks_loop(pages, i + 1, page_number, minimal_confidence,
            IF page_number = -1 \/ pages[i].page = page_number
            THEN LET kept == SelectSeq(pages[i].selectionMarks,
                                 LAMBDA mark : mark.confidence >= minimal_confidence)
                 IN selection_marks \o [j \in 1..Len(kept) |-> kept[j].state = "selected"]
            ELSE selection_marks)

get_selection_marks_from_page(d, page_number, minimal_confidence) ==
    LET page_nested_obj == get_nested_obj_for_key(d, "pages")
    IN IF page_nested_obj.isNone THEN Ok(<<>>)
       ELSE Ok(marks_loop(page_nested_obj.obj, 1, page_number, minimal_confidence, <<>>))

RECURSIVE lines_loop(_, _, _, _)
lines_loop(pages, i, page_number, lines) ==
    IF i > Len(pages) THEN lines
    ELSE lines_loop(pages, i + 1, page_number,
            IF page_number = -1 \/ pages[i].page = page_number
            THEN lines \o Contents(pages[i].lines)
            ELSE lines)

\* a reader that indexes the pages the way get_words_from_page does
get_lines_unchecked(d, page_number) ==
    IF "analyzeResult" \notin DOMAIN d THEN Raise("KeyError", "analyzeResult")
    ELSE IF "pages" \notin DOMAIN d.analyzeResult THEN Raise("KeyError", "pages")
    ELSE Ok(lines_loop(d.analyzeResult.pages, 1, page_number, <<>>))

get_lines_from_page(d, page_number) ==
    LET page_nested_obj == get_nested_obj_for_key(d, "pages")
    IN IF page_nested_obj.isNone THEN Ok(<<>>)
       ELSE Ok(lines_loop(page_nested_obj.obj, 1, page_number, <<>>))

AzureDocIntelTableCell(cell) ==
    [row_index |-> cell.rowIndex, column_index |-> cell.columnIndex,
     is_header |-> "kind" \in DOMAIN cell, text |-> cell.content]

\* AzureDocIntelTable declares the field column_count
AzureDocIntelTable(fields) ==
    IF DOMAIN fields = {"row_count", "column_count", "cells"}
    THEN Ok(fields)
    ELSE Raise("ValidationError", "column_count")

RECURSIVE tables_loop(_, _, _, _)
tables_loop(tables_nested_obj, i, page_number, tables) ==
    IF i > Len(tables_nested_obj) THEN Ok(tables)
    ELSE LET table == tables_nested_obj[i]
         IN IF page_number = -1 \/ table.boundingRegions[1].pageNumber = page_number
            THEN LET kept == SelectSeq(table.cells,
                                 LAMBDA cell : \/ page_number = -1
                                               \/ cell.boundingRegions[1].pageNumber = page_number)
                     azure_cells == [j \in 1..Len(kept) |-> AzureDocIntelTableCell(kept[j])]
                     built == AzureDocIntelTable([row_count |-> table.rowCount,
                                                  col_count |-> table.columnCount,
                                                  cells |-> azure_cells])
                 IN IF built.status # "ok" THEN built
                    ELSE tables_loop(tables_nested_obj, i + 1, page_number,
                                     Append(tables, built.value))
            ELSE tables_loop(tables_nested_obj, i + 1, page_number, tables)

get_tables_from_page(d, page_number) ==
    LET tables_nested_obj == get_nested_obj_for_key(d, "tables")
    IN IF tables_nested_obj.isNone THEN Ok(<<>>)
       ELSE tables_loop(tables_nested_obj.obj, 1, page_number, <<>>)

\* dict[key] = value
SetItem(dict, key, value) ==
    [k \in DOMAIN dict \cup {key} |-> IF k = key THEN value ELSE dict[k]]

EmptyDict == [k \in {} |-> ""]

\* a loop that keeps the first value of a key
RECURSIVE pairs_loop_first_wins(_, _, _, _)
pairs_loop_first_wins(kv_nested_obj, i, page_number, key_value_pairs) ==
    IF i > Len(kv_nested_obj) THEN key_value_pairs
    ELSE pairs_loop_first_wins(kv_nested_obj, i + 1, page_number,
            IF /\ \/ page_number = -1
                  \/ kv_nested_obj[i].boundingRegions[1].pageNumber = page_number
               /\ kv_nested_obj[i].key.content \notin DOMAIN key_value_pairs
            THEN SetItem(key_value_pairs, kv_nested_obj[i].key.content,
                         kv_nested_obj[i].value.content)
            ELSE key_value_pairs)

RECURSIVE pairs_loop(_, _, _, _)
pairs_loop(kv_nested_obj, i, page_number, key_value_pairs) ==
    IF i > Len(kv_nested_obj) THEN key_value_pairs
    ELSE pairs_loop(kv_nested_obj, i + 1, page_number,
            IF page_number = -1 \/ kv_nested_obj[i].boundingRegions[1].pageNumber = page_number
            THEN SetItem(key_value_pairs, kv_nested_obj[i].key.content,
                         kv_nested_obj[i].value.content)
            ELSE key_value_pairs)

get_key_value_pairs_from_page(d, page_number) ==
    LET kv_nested_obj == get_nested_obj_for_key(d, "keyValuePairs")
    IN IF kv_nested_obj.isNone THEN Ok(EmptyDict)
       ELSE Ok(pairs_loop(kv_nested_obj.obj, 1, page_number, EmptyDict))

RECURSIVE fields_loop(_, _, _, _, _)
fields_loop(kv_nested_obj, i, field_names, minimum_value_confidence, fields) ==
    IF i > Len(kv_nested_obj) THEN fields
    ELSE fields_loop(kv_nested_obj, i + 1, field_names, minimum_value_confidence,
            IF /\ kv_nested_obj[i].key.content \in field_names
               /\ kv_nested_obj[i].value.confidence >= minimum_value_confidence
            THEN SetItem(fields, kv_nested_obj[i].key.content, kv_nested_obj[i].value.content)
            ELSE fields)

get_specific_fields(d, field_names, minimum_value_confidence) ==
    LET kv_nested_obj == get_nested_obj_for_key(d, "keyValuePairs")
    IN IF kv_nested_obj.isNone THEN Ok(EmptyDict)
       ELSE Ok(fields_loop(kv_nested_obj.obj, 1, field_names, minimum_value_confidence,
                           EmptyDict))

----------------------------------------------------------------------------
(* The object and its operations *)

PageArgs == -2..(MaxPages + 1)
ConfArgs == Confs \cup {High + 1}

Called(op, args, out) == [op |-> op, args |-> args, out |-> out]

InitOn(disks) ==
    /\ result = None
    /\ max_page_count = 1
    /\ fs \in disks
    /\ last = Called("__init__", <<>>, Ok(None))

Init == InitOn(ShapeDisks \cup ScanDisks)
InitPages == InitOn(PageDisks)
InitPairs == InitOn(PairDisks)
InitTables == InitOn(TableDisks)

analyze_document(file, model_id) ==
    IF ~exists(file)
    THEN /\ last' = Called("analyze_document", [file |-> file, model_id |-> model_id],
                           Raise("FileNotFoundError", file))
         /\ UNCHANGED <<result, max_page_count, fs>>
    ELSE LET poller_result == Flattened(model_id, fs[file].analysis)
         IN /\ result' = SdkResult(poller_result)
            /\ max_page_count' = update_max_page_count(poller_result)
            /\ last' = Called("analyze_document", [file |-> file, model_id |-> model_id],
                              Ok(None))
            /\ UNCHANGED fs

\* a loader that drops the held result before it looks for the file
load_dropping_result(filename) ==
    /\ last' = Called("load_azure_ocr_json", [filename |-> filename],
                      CASE ~exists(filename) -> Raise("FileNotFoundError", filename)
                        [] fs[filename].kind = "empty" -> Raise("JSONDecodeError", filename)
                        [] OTHER -> Ok(None))
    /\ result' = IF fs[filename].kind = "json" THEN PyDict(fs[filename].data) ELSE None
    /\ UNCHANGED <<max_page_count, fs>>

load_azure_ocr_json(filename) ==
    /\ last' = Called("load_azure_ocr_json", [filename |-> filename],
                      CASE ~exists(filename) -> Raise("FileNotFoundError", filename)
                        [] fs[filename].kind = "empty" -> Raise("JSONDecodeError", filename)
                        [] OTHER -> Ok(None))
    /\ result' = IF fs[filename].kind = "json" THEN PyDict(fs[filename].data) ELSE result
    /\ UNCHANGED <<max_page_count, fs>>

\* the body of save_azure_ocr_json: the file is opened for writing, then
\* self.result.as_dict() is dumped into it
save_body(filename) ==
    IF result.type = "AnalyzeResult"
    THEN [out |-> Ok(None), file |-> JsonFile(result.data)]
    ELSE [out |-> Raise("AttributeError", "as_dict"), file |-> EmptyFile]

\* a writer without the guard: it opens the file whatever the store holds
save_unguarded(filename) ==
    /\ last' = Called("save_azure_ocr_json", [filename |-> filename],
                      IF result = None THEN Raise("AttributeError", "as_dict")
                      ELSE save_body(filename).out)
    /\ fs' = [fs EXCEPT ![filename] = IF result = None THEN EmptyFile
                                      ELSE save_body(filename).file]
    /\ UNCHANGED <<result, max_page_count>>

save_azure_ocr_json(filename) ==
    LET out == require_azure_ocr_result(result, save_body(filename).out)
    IN /\ last' = Called("save_azure_ocr_json", [filename |-> filename], out)
       /\ fs' = IF result = None THEN fs
                ELSE [fs EXCEPT ![filename] = save_body(filename).file]
       /\ UNCHANGED <<result, max_page_count>>

\* an accessor only reads: it leaves result, max_page_count and fs as they are
GetRawText ==
    /\ last' = Called("get_raw_text", <<>>,
                      require_azure_ocr_result(result, get_raw_text(result.data)))
    /\ UNCHANGED <<result, max_page_count, fs>>

GetWordsFromPage(page_number, minimal_confidence) ==
    /\ last' = Called("get_words_from_page",
                      [page_number |-> page_number,
                       minimal_confidence |-> minimal_confidence],
                      require_azure_ocr_result(result,
                          get_words_from_page(result.data, max_page_count, page_number,
                                              minimal_confidence)))
    /\ UNCHANGED <<result, max_page_count, fs>>

GetSelectionMarksFromPage(page_number, minimal_confidence) ==
    /\ last' = Called("get_selection_marks_from_page",
                      [page_number |-> page_number,
                       minimal_confidence |-> minimal_confidence],
                      require_azure_ocr_result(result,
                          get_selection_marks_from_page(result.data, page_number,
                                                        minimal_confidence)))
    /\ UNCHANGED <<result, max_page_count, fs>>

GetLinesFromPage(page_number) ==
    /\ last' = Called("get_lines_from_page", [page_number |-> page_number],
                      require_azure_ocr_result(result,
                          get_lines_from_page(result.data, page_number)))
    /\ UNCHANGED <<result, max_page_count, fs>>

GetTablesFromPage(page_number) ==
    /\ last' = Called("get_tables_from_page", [page_number |-> page_number],
                      require_azure_ocr_result(result,
                          get_tables_from_page(result.data, page_number)))
    /\ UNCHANGED <<result, max_page_count, fs>>

GetKeyValuePairsFromPage(page_number) ==
    /\ last' = Called("get_key_value_pairs_from_page", [page_number |-> page_number],
                      require_azure_ocr_result(result,
                          get_key_value_pairs_from_page(result.data, page_number)))
    /\ UNCHANGED <<result, max_page_count, fs>>

GetSpecificFields(field_names, minimum_value_confidence) ==
    /\ last' = Called("get_specific_fields",
                      [field_names |-> field_names,
                       minimum_value_confidence |-> minimum_value_confidence],
                      require_azure_ocr_result(result,
                          get_specific_fields(result.data, field_names,
                                              minimum_value_confidence)))
    /\ UNCHANGED <<result, max_page_count, fs>>

Next ==
    \/ \E file \in PdfPaths, model_id \in ModelIds : analyze_document(file, model_id)
    \/ \E filename \in JsonPaths : load_azure_ocr_json(filename)
    \/ \E filename \in SavePaths : save_azure_ocr_json(filename)
    \/ GetRawText
    \/ \E p \in PageArgs, c \in ConfArgs : GetWordsFromPage(p, c)
    \/ \E p \in PageArgs, c \in ConfArgs : GetSelectionMarksFromPage(p, c)
    \/ \E p \in PageArgs : GetLinesFromPage(p)
    \/ \E p \in PageArgs : GetTablesFromPage(p)
    \/ \E p \in PageArgs : GetKeyValuePairsFromPage(p)
    \/ \E names \in SUBSET KeyTexts, c \in ConfArgs : GetSpecificFields(names, c)

Spec == Init /\ [][Next]_vars
SpecPages == InitPages /\ [][Next]_vars
SpecPairs == InitPairs /\ [][Next]_vars
SpecTables == InitTables /\ [][Next]_vars

----------------------------------------------------------------------------
(* Vocabulary of the properties *)

Loaded == result # None

GuardedOps == {"get_raw_text", "get_words_from_page", "get_selection_marks_from_page",
               "get_lines_from_page", "get_tables_from_page",
               "get_key_value_pairs_from_page", "get_specific_fields",
               "save_azure_ocr_json"}

NoResultError == Raise("ValueError", "No Azure OCR result found.")

IsWrapped(d) == "analyzeResult" \in DOMAIN d

\* the object a document keeps its payload in
PayloadOf(d) == IF IsWrapped(d) THEN d.analyzeResult ELSE d

Lacks(d, key) == key \notin DOMAIN PayloadOf(d)

PagesOf(d) == IF Lacks(d, "pages") THEN <<>> ELSE PayloadOf(d).pages

PairsOf(d) == IF Lacks(d, "keyValuePairs") THEN <<>> ELSE PayloadOf(d).keyValuePairs

\* the largest page number of a document, 1 without pages
PageMax(d) ==
    IF PagesOf(d) = <<>> THEN 1
    ELSE CHOOSE n \in {PagesOf(d)[i].page : i \in 1..Len(PagesOf(d))} :
            \A i \in 1..Len(PagesOf(d)) : PagesOf(d)[i].page <= n

\* the words of the pages numbered p (of all pages when p = -1) whose
\* confidence is at least c, pages and words in document order
WordsAt(pages, p, c) ==
    Flatten([i \in 1..Len(pages) |->
                IF p = -1 \/ pages[i].page = p
                THEN LET ws == pages[i].words
                         keep == {j \in 1..Len(ws) : ws[j].confidence >= c}
                         nth(k) == CHOOSE j \in keep : Cardinality({h \in keep : h <= j}) = k
                     IN [k \in 1..Cardinality(keep) |-> ws[nth(k)].content]
                ELSE <<>>])

\* the indices of the pairs on page p (of all pairs when p = -1)
PairsAt(pairs, p) ==
    {i \in 1..Len(pairs) : p = -1 \/ pairs[i].boundingRegions[1].pageNumber = p}

----------------------------------------------------------------------------
(* C1: in the Empty state every guarded operation fails with the "no result
   loaded" ValueError, whatever its arguments, touches nothing (no field of
   the result, no file) and leaves the store Empty. *)
C1_EmptyStoreRejects ==
    [][(result = None /\ last'.op \in GuardedOps)
          => /\ last'.out = NoResultError
             /\ result' = None
             /\ UNCHANGED <<max_page_count, fs>>]_vars

C1_Witness ==
    /\ result = None
    /\ last.op = "get_words_from_page"
    /\ last.args.page_number = 1
    /\ last.out = NoResultError

(* C2: whenever a result is held, max_page_count is the largest `page` number
   of the held result's pages, or 1 if it has no pages. *)
C2_MaxPageCountOfHeldResult ==
    Loaded => max_page_count = PageMax(result.data)

(* C3: load_azure_ocr_json of a path that does not exist raises
   FileNotFoundError and leaves result, max_page_count and the files as they
   were. *)
C3_MissingFileLeavesStore ==
    [][(last'.op = "load_azure_ocr_json" /\ ~exists(last'.args.filename))
          => /\ last'.out.status = "FileNotFoundError"
             /\ UNCHANGED <<result, max_page_count, fs>>]_vars

C3_Witness ==
    /\ Loaded
    /\ max_page_count > 1
    /\ last.op = "load_azure_ocr_json"
    /\ last.args.filename = "missing.json"
    /\ last.out.status = "FileNotFoundError"

(* C4: for a loaded result (a document with content and pages, in either
   shape), get_words_from_page with page_number 0, below -1 or above
   max_page_count fails with the range error, a ValueError. *)
C4_BadPageNumberIsValueError ==
    (/\ Loaded
     /\ {"content", "pages"} \subseteq DOMAIN PayloadOf(result.data)
     /\ last.op = "get_words_from_page"
     /\ \/ last.args.page_number = 0
        \/ last.args.page_number < -1
        \/ last.args.page_number > max_page_count)
      => last.out.status = "ValueError"

(* C5: for a loaded flattened document (modelId "prebuilt-layout", content and
   pages with words at the top level) get_raw_text returns the content and
   get_words_from_page answers as it does for the same payload wrapped under
   analyzeResult. *)
C5_FlattenedAnswersAsWrapped ==
    (/\ Loaded
     /\ ~IsWrapped(result.data)
     /\ {"modelId", "content", "pages"} \subseteq DOMAIN result.data
     /\ result.data.modelId = "prebuilt-layout"
     /\ \E i \in 1..Len(result.data.pages) : result.data.pages[i].words # <<>>)
      => /\ last.op = "get_raw_text" => last.out = Ok(result.data.content)
         /\ (/\ last.op = "get_words_from_page"
             /\ last.args.page_number \in {-1} \cup 1..max_page_count)
              => last.out =
                   get_words_from_page(
                       Wrapped([modelId |-> "prebuilt-document"],
                               [k \in DOMAIN result.data \ {"modelId"} |-> result.data[k]]),
                       max_page_count, last.args.page_number,
                       last.args.minimal_confidence)

(* C6: for a loaded result get_raw_text returns analyzeResult.content when
   modelId is "prebuilt-document", the top-level content when modelId is
   "prebuilt-layout" (each where the document holds that string), and fails
   with the unsupported-model ValueError for every other modelId. *)
C6_RawTextByModelId ==
    (Loaded /\ last.op = "get_raw_text" /\ "modelId" \in DOMAIN result.data)
      => LET d == result.data
         IN /\ (/\ d.modelId = "prebuilt-document"
                /\ IsWrapped(d)
                /\ "content" \in DOMAIN d.analyzeResult)
                 => last.out = Ok(d.analyzeResult.content)
            /\ (d.modelId = "prebuilt-layout" /\ "content" \in DOMAIN d)
                 => last.out = Ok(d.content)
            /\ d.modelId \notin {"prebuilt-document", "prebuilt-layout"}
                 => last.out = Raise("ValueError",
                                     "Non Implemented model_id found in Azure OCR result.")

C6_Witness ==
    /\ Loaded
    /\ last.op = "get_raw_text"
    /\ IsWrapped(result.data)
    /\ {"modelId", "content"} \subseteq DOMAIN result.data
    /\ result.data.modelId = "prebuilt-document"
    /\ "content" \in DOMAIN result.data.analyzeResult
    /\ result.data.content # result.data.analyzeResult.content
    /\ last.out = Ok(NestedText)

(* C7: for a loaded result and a page_number that is -1 or within
   1..max_page_count, get_words_from_page(p, c) returns the content of every
   word of confidence >= c on the pages numbered p (all pages for -1), pages
   and words in document order. *)
C7_WordsOfPage ==
    (/\ Loaded
     /\ ~Lacks(result.data, "pages")
     /\ last.op = "get_words_from_page"
     /\ last.args.page_number \in {-1} \cup 1..max_page_count)
      => last.out = Ok(WordsAt(PagesOf(result.data), last.args.page_number,
                               last.args.minimal_confidence))

(* C8: get_key_value_pairs_from_page(p) returns a mapping whose keys are the
   key texts of the pairs on page p (of all pairs for -1), each mapped to the
   value text of the last such pair with that key text. *)
C8_LastPairWins ==
    (Loaded /\ last.op = "get_key_value_pairs_from_page")
      => LET pairs == PairsOf(result.data)
             at == PairsAt(pairs, last.args.page_number)
             lastOf(k) == CHOOSE i \in at :
                             /\ pairs[i].key.content = k
                             /\ \A j \in at : pairs[j].key.content = k => j <= i
         IN /\ last.out.status = "ok"
            /\ DOMAIN last.out.value = {pairs[i].key.content : i \in at}
            /\ \A k \in DOMAIN last.out.value :
                  last.out.value[k] = pairs[lastOf(k)].value.content

C8_Witness ==
    /\ Loaded
    /\ last.op = "get_key_value_pairs_from_page"
    /\ last.args.page_number = 1
    /\ LET pairs == PairsOf(result.data)
       IN /\ Len(pairs) = 2
          /\ pairs[1].key.content = pairs[2].key.content
          /\ pairs[1].value.content # pairs[2].value.content
          /\ PairsAt(pairs, 1) = {1, 2}
          /\ last.out = Ok([k \in {pairs[2].key.content} |-> pairs[2].value.content])

(* C9: for a loaded result that lacks the field an accessor reads, the lenient
   accessors return an empty result, never an error, for every page_number:
   tables without `tables`, key-value pairs and specific fields without
   `keyValuePairs`, selection marks and lines without `pages`. *)
C9_MissingFieldGivesEmpty ==
    Loaded
      => /\ (last.op = "get_tables_from_page" /\ Lacks(result.data, "tables"))
              => last.out = Ok(<<>>)
         /\ (/\ last.op \in {"get_key_value_pairs_from_page", "get_specific_fields"}
             /\ Lacks(result.data, "keyValuePairs"))
              => last.out = Ok(EmptyDict)
         /\ (/\ last.op \in {"get_selection_marks_from_page", "get_lines_from_page"}
             /\ Lacks(result.data, "pages"))
              => last.out = Ok(<<>>)

C9_Witness ==
    /\ Loaded
    /\ last.op = "get_lines_from_page"
    /\ last.args.page_number = 0
    /\ Lacks(result.data, "pages")
    /\ ~Lacks(result.data, "tables")
    /\ last.out = Ok(<<>>)

(* C10: after a successful load_azure_ocr_json, save_azure_ocr_json(filename)
   completes without error and writes the held document to the file. *)
C10_SaveAfterLoad ==
    (/\ last.op = "save_azure_ocr_json"
     /\ Loaded
     /\ result.type = "dict"
     /\ {"content", "pages"} \subseteq DOMAIN PayloadOf(result.data))
      => /\ last.out.status = "ok"
         /\ fs[last.args.filename] = JsonFile(result.data)

----------------------------------------------------------------------------
(* Vocabulary of the table property *)

TablesOf(d) == IF Lacks(d, "tables") THEN <<>> ELSE PayloadOf(d).tables

\* the items of s at the indices in keep, in the order of s
Pick(s, keep) ==
    LET nth(k) == CHOOSE j \in keep : Cardinality({h \in keep : h <= j}) = k
    IN [k \in 1..Cardinality(keep) |-> s[nth(k)]]

OnPage(item, p) == p = -1 \/ item.boundingRegions[1].pageNumber = p

\* the Table the claim describes for a source table: its counts, and its
\* cells on page p with their indices, text and header mark
TableAt(table, p) ==
    LET cells == Pick(table.cells,
                      {j \in 1..Len(table.cells) : OnPage(table.cells[j], p)})
    IN [row_count |-> table.rowCount,
        column_count |-> table.columnCount,
        cells |-> [j \in 1..Len(cells) |->
                      [row_index |-> cells[j].rowIndex,
                       column_index |-> cells[j].columnIndex,
                       text |-> cells[j].content,
                       is_header |-> "kind" \in DOMAIN cells[j]]]]

TablesAt(tables, p) ==
    LET on == Pick(tables, {i \in 1..Len(tables) : OnPage(tables[i], p)})
    IN [i \in 1..Len(on) |-> TableAt(on[i], p)]

(* C11: for a loaded result with a `tables` field, get_tables_from_page(p)
   returns, in document order, one Table for every source table on page p
   (every table for -1), carrying the table's row count and column count and
   exactly its cells on page p, each with row index, column index, text and
   is_header true iff the cell has a `kind` marker. *)
C11_TablesOfPage ==
    (/\ Loaded
     /\ ~Lacks(result.data, "tables")
     /\ last.op = "get_tables_from_page")
      => last.out = Ok(TablesAt(TablesOf(result.data), last.args.page_number))

====
